---- MODULE Spec2Model ----
(***************************************************************************)
(* Vocabulary-constrained story generation: the tokenizer, the validator   *)
(* (validate_story) and the retry loop (generate_story) of                  *)
(* service/generator.py, with the tables of wordBank.py.                    *)
(*                                                                         *)
(* Text is a sequence of one-character strings, so that the regular        *)
(* expressions of the tokenizer and of the sentence splitter are computed   *)
(* character by character.  A word, a token, a sentence, an error message   *)
(* and a prompt are all such sequences.                                     *)
(***************************************************************************)
EXTENDS Integers, Sequences, FiniteSets, TLC

---------------------------------------------------------------------------
(* Bounds of the model.                                                    *)

\* the story_text of a validated plan is a concatenation of at most MaxPieces pieces
MaxPieces == 2
\* the used_words of a validated plan has at most MaxUsed entries
MaxUsed == 2
\* generate_story is called with max_retries in -1 .. MaxRetries
MaxRetries == 3

---------------------------------------------------------------------------
(* wordBank.py                                                             *)

LEVELS == <<"A", "B", "C", "D", "E", "F", "G", "H">>

LevelEnum == {"A", "B", "C", "D", "E", "F", "G", "H"}

WORD_BANK ==
     "A" :> {
        <<"b","o","y">>, <<"g","i","r","l">>, <<"d","o","g">>,
        <<"c","a","t">>, <<"s","e","e">>, <<"r","u","n">>,
        <<"h","a","p","p","y">>, <<"t","o","d","a","y">>}
  @@ "B" :> {
        <<"b","o","y">>, <<"g","i","r","l">>, <<"d","o","g">>,
        <<"c","a","t">>, <<"s","e","e">>, <<"r","u","n">>,
        <<"h","a","p","p","y">>, <<"t","o","d","a","y">>, <<"s","c","h","o","o","l">>,
        <<"f","r","i","e","n","d">>}
  @@ "C" :> {
        <<"b","o","y">>, <<"g","i","r","l">>, <<"d","o","g">>,
        <<"c","a","t">>, <<"s","e","e">>, <<"r","u","n">>,
        <<"h","a","p","p","y">>, <<"t","o","d","a","y">>, <<"s","c","h","o","o","l">>,
        <<"f","r","i","e","n","d">>, <<"h","o","u","s","e">>, <<"p","l","a","y">>}
  @@ "D" :> {
        <<"b","o","y">>, <<"g","i","r","l">>, <<"d","o","g">>,
        <<"c","a","t">>, <<"s","e","e">>, <<"r","u","n">>,
        <<"h","a","p","p","y">>, <<"t","o","d","a","y">>, <<"s","c","h","o","o","l">>,
        <<"f","r","i","e","n","d">>, <<"h","o","u","s","e">>, <<"p","l","a","y">>,
        <<"y","e","s","t","e","r","d","a","y">>, <<"p","a","r","k">>}
  @@ "E" :> {
        <<"b","o","y">>, <<"g","i","r","l">>, <<"d","o","g">>,
        <<"c","a","t">>, <<"s","e","e">>, <<"r","u","n">>,
        <<"h","a","p","p","y">>, <<"t","o","d","a","y">>, <<"s","c","h","o","o","l">>,
        <<"f","r","i","e","n","d">>, <<"h","o","u","s","e">>, <<"p","l","a","y">>,
        <<"y","e","s","t","e","r","d","a","y">>, <<"p","a","r","k">>, <<"f","i","n","i","s","h">>,
        <<"w","a","n","t">>}
  @@ "F" :> {
        <<"b","o","y">>, <<"g","i","r","l">>, <<"d","o","g">>,
        <<"c","a","t">>, <<"s","e","e">>, <<"r","u","n">>,
        <<"h","a","p","p","y">>, <<"t","o","d","a","y">>, <<"s","c","h","o","o","l">>,
        <<"f","r","i","e","n","d">>, <<"h","o","u","s","e">>, <<"p","l","a","y">>,
        <<"y","e","s","t","e","r","d","a","y">>, <<"p","a","r","k">>, <<"f","i","n","i","s","h">>,
        <<"w","a","n","t">>, <<"a","s","k">>, <<"h","e","l","p">>}
  @@ "G" :> {
        <<"b","o","y">>, <<"g","i","r","l">>, <<"d","o","g">>,
        <<"c","a","t">>, <<"s","e","e">>, <<"r","u","n">>,
        <<"h","a","p","p","y">>, <<"t","o","d","a","y">>, <<"s","c","h","o","o","l">>,
        <<"f","r","i","e","n","d">>, <<"h","o","u","s","e">>, <<"p","l","a","y">>,
        <<"y","e","s","t","e","r","d","a","y">>, <<"p","a","r","k">>, <<"f","i","n","i","s","h">>,
        <<"w","a","n","t">>, <<"a","s","k">>, <<"h","e","l","p">>,
        <<"b","e","c","a","u","s","e">>}
  @@ "H" :> {
        <<"b","o","y">>, <<"g","i","r","l">>, <<"d","o","g">>,
        <<"c","a","t">>, <<"s","e","e">>, <<"r","u","n">>,
        <<"h","a","p","p","y">>, <<"t","o","d","a","y">>, <<"s","c","h","o","o","l">>,
        <<"f","r","i","e","n","d">>, <<"h","o","u","s","e">>, <<"p","l","a","y">>,
        <<"y","e","s","t","e","r","d","a","y">>, <<"p","a","r","k">>, <<"f","i","n","i","s","h">>,
        <<"w","a","n","t">>, <<"a","s","k">>, <<"h","e","l","p">>,
        <<"b","e","c","a","u","s","e">>, <<"b","e","f","o","r","e">>, <<"a","f","t","e","r">>}

LEVEL_POLICY ==
     "A" :> [max_tokens |-> 40, max_sentences |-> 3]
  @@ "B" :> [max_tokens |-> 50, max_sentences |-> 4]
  @@ "C" :> [max_tokens |-> 60, max_sentences |-> 5]
  @@ "D" :> [max_tokens |-> 70, max_sentences |-> 5]
  @@ "E" :> [max_tokens |-> 80, max_sentences |-> 6]
  @@ "F" :> [max_tokens |-> 90, max_sentences |-> 6]
  @@ "G" :> [max_tokens |-> 100, max_sentences |-> 7]
  @@ "H" :> [max_tokens |-> 110, max_sentences |-> 7]

---------------------------------------------------------------------------
(* Characters.                                                             *)

UPPER == <<"A","B","C","D","E","F","G","H","I","J","K","L","M",
           "N","O","P","Q","R","S","T","U","V","W","X","Y","Z">>

LOWER == <<"a","b","c","d","e","f","g","h","i","j","k","l","m",
           "n","o","p","q","r","s","t","u","v","w","x","y","z">>

Range(s) == {s[i] : i \in DOMAIN s}

UpperSet == Range(UPPER)

LowerSet == Range(LOWER)

\* str.lower() on one character
lower_char == [c \in UpperSet |-> LOWER[CHOOSE i \in DOMAIN UPPER : UPPER[i] = c]]

LowerChar(c) == IF c \in UpperSet THEN lower_char[c] ELSE c

\* the character class [A-Za-z'] of TOKEN_RE
TOKEN_RE(c) == c \in UpperSet \/ c \in LowerSet \/ c = "'"

\* the class [.!?] of the sentence splitter
IsTerminator(c) == c \in {".", "!", "?"}

\* the class \s of the sentence splitter, and what str.strip() removes
IsSpace(c) == c \in {" ", "\n", "\t"}

---------------------------------------------------------------------------
(* Tokenization and sentence helpers.                                      *)

normalize_word(w) == [i \in DOMAIN w |-> LowerChar(w[i])]

Positions(text) == [i \in 1..Len(text) |-> i]

\* TOKEN_RE.finditer(text): the maximal runs of token characters, left to
\* right.  A run starts where a token character follows none and ends where
\* none follows it; the k-th match runs from the k-th start to the k-th end.
FindTokens(text) ==
  LET IsStart(i) == TOKEN_RE(text[i]) /\ (i = 1 \/ ~TOKEN_RE(text[i - 1]))
      IsEnd(i)   == TOKEN_RE(text[i])
                    /\ (i = Len(text) \/ ~TOKEN_RE(text[i + 1]))
      starts == SelectSeq(Positions(text), IsStart)
      ends   == SelectSeq(Positions(text), IsEnd)
  IN  [k \in DOMAIN starts |-> SubSeq(text, starts[k], ends[k])]

tokenize_text(text) ==
  LET ms == FindTokens(text)
  IN  [k \in DOMAIN ms |-> normalize_word(ms[k])]

\* str.strip(): the text from its first to its last character that is not
\* white space
Strip(text) ==
  LET NotSpace(i) == ~IsSpace(text[i])
      inked == SelectSeq(Positions(text), NotSpace)
  IN  IF inked = <<>> THEN <<>>
      ELSE SubSeq(text, inked[1], inked[Len(inked)])

\* position p lies inside a match of [.!?]+\s* : a terminator, or white
\* space that follows a position inside the match
RECURSIVE InSeparator(_, _)
InSeparator(text, p) ==
  \/ IsTerminator(text[p])
  \/ IsSpace(text[p]) /\ p > 1 /\ InSeparator(text, p - 1)

\* re.split(r"[.!?]+\s*", text).  A separator is a maximal run of
\* terminators with the white space that follows it; it starts at a
\* terminator that follows none, so a terminator after the trailing white
\* space of a separator starts the next one, with an empty part between.
\* The parts are the text before the first separator, between two
\* consecutive ones, and after the last.
ReSplit(text) ==
  LET n == Len(text)
      IsStart(i) == IsTerminator(text[i])
                    /\ (i = 1 \/ ~IsTerminator(text[i - 1]))
      IsEnd(i)   == /\ InSeparator(text, i)
                    /\ \/ i = n
                       \/ ~InSeparator(text, i + 1)
                       \/ (IsSpace(text[i]) /\ IsTerminator(text[i + 1]))
      starts == SelectSeq(Positions(text), IsStart)
      ends   == SelectSeq(Positions(text), IsEnd)
      m      == Len(starts)
  IN  [k \in 1..(m + 1) |->
         SubSeq(text,
                IF k = 1 THEN 1 ELSE ends[k - 1] + 1,
                IF k = m + 1 THEN n ELSE starts[k] - 1)]

NonEmpty(p) == p # <<>>

split_sentences(text) == SelectSeq(ReSplit(Strip(text)), NonEmpty)

---------------------------------------------------------------------------
(* str(n) and str.join, as the f-strings and joins of the messages use    *)
(* them.                                                                   *)

DIGITS == <<"0", "1", "2", "3", "4", "5", "6", "7", "8", "9">>

RECURSIVE IntToStr(_)
IntToStr(n) ==
  IF n < 10
  THEN <<DIGITS[n + 1]>>
  ELSE IntToStr(n \div 10) \o <<DIGITS[(n % 10) + 1]>>

\* sep.join(items)
RECURSIVE Join(_, _)
Join(sep, items) ==
  IF items = <<>> THEN <<>>
  ELSE IF Len(items) = 1 THEN items[1]
  ELSE items[1] \o sep \o Join(sep, Tail(items))

---------------------------------------------------------------------------
(* class StoryPlan and validate_story.                                     *)
(* sentences is Optional: present = FALSE is None.                         *)

NoSentences == [present |-> FALSE, val |-> <<>>]

\* "not plan.sentences": None or the empty list
Missing(s) == ~s.present \/ s.val = <<>>

\* the loop over plan.used_words: one message for each entry whose
\* normalized form is not in the bank, naming the entry as it is stored
UsedWordsErrors(used_words, allowed) ==
  LET OutOfBank(w) == normalize_word(w) \notin allowed
      bad == SelectSeq(used_words, OutOfBank)
  IN  [k \in DOMAIN bad |-> <<"Out-of-bank used_words item: ">> \o bad[k]]

\* the loop over toks: one message for each token that is not in the bank
TokenErrors(toks, allowed) ==
  LET OOV(t) == t \notin allowed
      bad == SelectSeq(toks, OOV)
  IN  [k \in DOMAIN bad |-> <<"OOV token in story_text: ">> \o bad[k]]

TokenCapErrors(toks, policy) ==
  IF Len(toks) > policy.max_tokens
  THEN << <<"Too many tokens: ">> \o IntToStr(Len(toks)) \o <<" > ">>
          \o IntToStr(policy.max_tokens) >>
  ELSE <<>>

\* the sentence count compared with the token cap
SentenceCapErrorsWrongKey(sents, policy) ==
  IF Len(sents) > policy.max_tokens
  THEN << <<"Too many sentences: ">> \o IntToStr(Len(sents)) \o <<" > ">>
          \o IntToStr(policy.max_sentences) >>
  ELSE <<>>

SentenceCapErrors(sents, policy) ==
  IF Len(sents) > policy.max_sentences
  THEN << <<"Too many sentences: ">> \o IntToStr(Len(sents)) \o <<" > ">>
          \o IntToStr(policy.max_sentences) >>
  ELSE <<>>

\* the uniq / seen loop: when the loop reaches position i, seen holds the
\* tokens before it, and the token is appended to uniq if it is not in seen
Uniq(toks) ==
  LET seen(i, t) == \E j \in 1..(i - 1) : toks[j] = t
      first(i)   == ~seen(i, toks[i])
      firsts     == SelectSeq([i \in DOMAIN toks |-> i], first)
  IN  [k \in DOMAIN firsts |-> toks[firsts[k]]]

NormalizedUsedWords(used_words) ==
  [i \in DOMAIN used_words |-> normalize_word(used_words[i])]

\* used_words and the unique tokens compared as sets of words
ConsistencyErrorsAsSets(used_words, uniq) ==
  IF Range(NormalizedUsedWords(used_words)) # Range(uniq)
  THEN << <<"used_words does not match unique token order from story_text">> >>
  ELSE <<>>

\* an empty used_words reported as a mismatch
ConsistencyErrorsOnEmpty(used_words, uniq) ==
  IF used_words = <<>> \/ NormalizedUsedWords(used_words) # uniq
  THEN << <<"used_words does not match unique token order from story_text">> >>
  ELSE <<>>

ConsistencyErrors(used_words, uniq) ==
  IF NormalizedUsedWords(used_words) # uniq
  THEN << <<"used_words does not match unique token order from story_text">> >>
  ELSE <<>>

\* sentences filled in only where it is None, an empty list kept
PopulateSentencesNoneOnly(plan, sents) ==
  IF ~plan.sentences.present
  THEN [plan EXCEPT !.sentences = [present |-> TRUE, val |-> sents]]
  ELSE plan

\* sentences always replaced by the split of story_text
PopulateSentencesAlways(plan, sents) ==
  [plan EXCEPT !.sentences = [present |-> TRUE, val |-> sents]]

\* sentences replaced also where it differs from the split of story_text
PopulateSentencesWhenDifferent(plan, sents) ==
  IF ~plan.sentences.present \/ plan.sentences.val # sents
  THEN [plan EXCEPT !.sentences = [present |-> TRUE, val |-> sents]]
  ELSE plan

\* "if not plan.sentences: plan.sentences = sents"
PopulateSentences(plan, sents) ==
  IF ~plan.sentences.present \/ plan.sentences.val = <<>>
  THEN [plan EXCEPT !.sentences = [present |-> TRUE, val |-> sents]]
  ELSE plan

\* the checks stopped at the first one that reports a violation
validate_story_first_failure(plan) ==
  LET level   == plan.level
      allowed == WORD_BANK[level]
      toks    == tokenize_text(plan.story_text)
      policy  == LEVEL_POLICY[level]
      sents   == split_sentences(plan.story_text)
      uniq    == Uniq(toks)
      e1      == UsedWordsErrors(plan.used_words, allowed)
      e2      == TokenErrors(toks, allowed)
      e3      == TokenCapErrors(toks, policy)
      e4      == SentenceCapErrors(sents, policy)
      e5      == ConsistencyErrors(plan.used_words, uniq)
      errors  == IF e1 # <<>> THEN e1
                 ELSE IF e2 # <<>> THEN e2
                 ELSE IF e3 # <<>> THEN e3
                 ELSE IF e4 # <<>> THEN e4
                 ELSE e5
  IN  [ok |-> errors = <<>>, errors |-> errors,
       plan |-> PopulateSentences(plan, sents)]

validate_story(plan) ==
  LET level   == plan.level
      allowed == WORD_BANK[level]
      toks    == tokenize_text(plan.story_text)
      policy  == LEVEL_POLICY[level]
      sents   == split_sentences(plan.story_text)
      uniq    == Uniq(toks)
      errors  == UsedWordsErrors(plan.used_words, allowed)
                 \o TokenErrors(toks, allowed)
                 \o TokenCapErrors(toks, policy)
                 \o SentenceCapErrors(sents, policy)
                 \o ConsistencyErrors(plan.used_words, uniq)
  IN  [ok |-> errors = <<>>, errors |-> errors,
       plan |-> PopulateSentences(plan, sents)]

---------------------------------------------------------------------------
(* prompts.py                                                              *)

SYSTEM_RULES ==
  <<"You generate short stories in ASL-style grammar.\nConstraints:\n- Only use words from the allowed word bank for the selected level.\n- Keep ASL style: topic/comment ordering, early time markers, minimal function words.\n- Do not use words outside the bank. Avoid punctuation-heavy English phrasing.\n- Keep it simple and concise appropriate for the level.\nOutput JSON only, matching the schema.\n">>

ASL_HINTS ==
  <<"ASL style: TOPIC first if present; TIME marker early; minimal function words; simple clauses.">>

\* the order of two characters in sorted(): the bank holds lowercase
\* letters only
CharRank(c) == CHOOSE i \in DOMAIN LOWER : LOWER[i] = c

\* a < b for two strings, as sorted() compares them
RECURSIVE StrLess(_, _)
StrLess(a, b) ==
  IF b = <<>> THEN FALSE
  ELSE IF a = <<>> THEN TRUE
  ELSE IF Head(a) = Head(b) THEN StrLess(Tail(a), Tail(b))
  ELSE CharRank(Head(a)) < CharRank(Head(b))

\* sorted(allowed_words)
RECURSIVE Sorted(_)
Sorted(words) ==
  IF words = {} THEN <<>>
  ELSE LET least == CHOOSE w \in words :
                      \A v \in words \ {w} : StrLess(w, v)
       IN  <<least>> \o Sorted(words \ {least})

build_user_instructions(topic, level, allowed_words) ==
  LET bullets == Join(<<"\n">>, Sorted(allowed_words))
  IN  <<"\n    Task: Write a short ASL-style story about: \"">> \o topic
      \o <<"\".\n    Difficulty level: ", level,
           "\n    Allowed word bank (lowercase only; use ONLY these words):\n    ">>
      \o bullets
      \o <<"\n\n    Return valid JSON with fields:\n    - level (one of A-H)\n    - used_words (unique lowercase words in the story, in first-appearance order)\n    - story_text (the story text, ASL style, only bank words)\n\n    Keep within difficulty caps and keep it engaging and clear.\n    ">>

---------------------------------------------------------------------------
(* The candidate plans given to validate_story: every level of LevelSample, *)
(* every story_text made of at most MaxPieces pieces, every used_words of   *)
(* at most MaxUsed entries, and sentences absent, empty or given.           *)

Repeat(s, n) == [i \in 1..(n * Len(s)) |-> s[((i - 1) % Len(s)) + 1]]

RECURSIVE Concat(_)
Concat(ss) == IF ss = <<>> THEN <<>> ELSE Head(ss) \o Concat(Tail(ss))

\* "Boy "
PieceBoy == <<"B", "o", "y", " ">>

\* "school": in the bank of level B, not of level A
PieceSchool == <<"s", "c", "h", "o", "o", "l">>

\* "cat cat ... cat ": as many tokens as level A allows
PieceCats == Repeat(<<"c", "a", "t", " ">>, LEVEL_POLICY["A"].max_tokens)

\* "cat. cat!? cat . ": as many sentences as level A allows
PieceSentences ==
  <<"c", "a", "t", ".", " ", "c", "a", "t", "!", "?", " ",
    "c", "a", "t", " ", ".", " ">>

Pieces == <<PieceBoy, PieceSchool, PieceCats, PieceSentences>>

SeqsUpTo(S, n) == UNION {[1..k -> S] : k \in 0..n}

StoryTexts ==
  {Concat([k \in DOMAIN ps |-> Pieces[ps[k]]]) : ps \in SeqsUpTo(DOMAIN Pieces, MaxPieces)}

Words ==
  { <<"b", "o", "y">>, <<"B", "o", "y">>, <<"c", "a", "t">>,
    <<"s", "c", "h", "o", "o", "l">> }

UsedWordsLists == SeqsUpTo(Words, MaxUsed)

LevelSample == {"A", "B"}

SentencesSample ==
  { NoSentences,
    [present |-> TRUE, val |-> <<>>],
    [present |-> TRUE, val |-> << <<"B", "o", "y">> >>] }

CandidatePlans ==
  [level : LevelSample, used_words : UsedWordsLists,
   story_text : StoryTexts, sentences : SentencesSample]

---------------------------------------------------------------------------
(* The model responses of the retry loop: response.parsed yields a plan,   *)
(* or raises, or the call to generate_content itself raises.                *)

PlanOf(level, used_words, story_text, sentences) ==
  [level |-> level, used_words |-> used_words,
   story_text |-> story_text, sentences |-> sentences]

\* "7. 7. 7. 7. "
StoryOfDigits ==
  <<"7", ".", " ", "7", ".", " ", "7", ".", " ", "7", ".", " ">>

ResponsePlans ==
  { \* valid at level A
    PlanOf("A", << <<"b", "o", "y">> >>, PieceBoy, NoSentences),
    \* valid at level A, used_words stored with an upper-case letter
    PlanOf("A", << <<"B", "o", "y">> >>, PieceBoy, NoSentences),
    \* valid at level A, the empty story
    PlanOf("A", <<>>, <<>>, NoSentences),
    \* valid at level A, sentences given by the model
    PlanOf("A", << <<"b", "o", "y">> >>, PieceBoy,
           [present |-> TRUE, val |-> << <<"B", "o", "y">> >>]),
    \* valid at level B
    PlanOf("B", << <<"b", "o", "y">>, <<"s", "c", "h", "o", "o", "l">> >>,
           PieceBoy \o PieceSchool, NoSentences),
    \* the same story declared at level A: school is out of the bank twice
    PlanOf("A", << <<"b", "o", "y">>, <<"s", "c", "h", "o", "o", "l">> >>,
           PieceBoy \o PieceSchool, NoSentences),
    \* used_words does not match the story
    PlanOf("A", <<>>, PieceBoy, NoSentences),
    \* one sentence too many at level A
    PlanOf("A", << <<"c", "a", "t">>, <<"b", "o", "y">> >>,
           PieceSentences \o PieceBoy, NoSentences),
    \* the empty story at level H
    PlanOf("H", <<>>, <<>>, NoSentences),
    \* no token, four sentences: within the cap of level B, over that of A
    PlanOf("B", <<>>, StoryOfDigits, NoSentences),
    PlanOf("A", <<>>, StoryOfDigits, NoSentences) }

Responses ==
  {[kind |-> "parsed", plan |-> p] : p \in ResponsePlans}
  \cup {[kind |-> "unparseable"], [kind |-> "transport_error"]}

Topics == { <<"d", "o", "g">>, <<>> }

\* "Z" and "a" are not levels
LevelArgs == {"A", "B", "Z", "a"}

MaxRetriesArgs == (0 - 1) .. MaxRetries

---------------------------------------------------------------------------
VARIABLES
  \* generate_story
  pc,            \* "idle", "attempting", "returned", "raised"
  topic, level, max_retries,
  attempt, tighten_msgs, last_errors,
  result,        \* the (plan, attempt) returned
  failure,       \* the exception raised
  client,        \* the module's _client: TRUE once constructed
  constructions, \* calls of genai.Client(...) in this process
  api_key,       \* GEMINI_API_KEY is set in the environment
  \* history of the call in progress
  invocations,   \* calls of generate_content
  validations,   \* calls of validate_story
  prompts,       \* the prompts sent, in order
  responses,     \* the responses of the model, in order
  \* validate_story on its own
  vpc,           \* "off", "ready", "done"
  plan0,         \* the plan as given
  plan,          \* the plan object
  verdict        \* (ok, errors) returned

gvars == <<pc, topic, level, max_retries, attempt, tighten_msgs, last_errors,
           result, failure, client, constructions, api_key,
           invocations, validations, prompts, responses>>

vvars == <<vpc, plan0, plan, verdict>>

vars == <<gvars, vvars>>

NoPlan == PlanOf("A", <<>>, <<>>, NoSentences)

NoVerdict == [ok |-> FALSE, errors |-> <<>>]

NoResult == [plan |-> NoPlan, attempt |-> 0]

NoFailure == [exc |-> "", msg |-> <<>>]

---------------------------------------------------------------------------
(* validate_story on its own: the plan object is updated in place and      *)
(* returned with the verdict.                                               *)

ValidateStory ==
  /\ vpc = "ready"
  /\ LET r == validate_story(plan)
     IN  /\ plan' = r.plan
         /\ verdict' = [ok |-> r.ok, errors |-> r.errors]
  /\ vpc' = "done"
  /\ UNCHANGED <<plan0, gvars>>

GInit ==
  /\ pc = "idle"
  /\ topic = <<>> /\ level = "A" /\ max_retries = 0
  /\ attempt = 0 /\ tighten_msgs = <<>> /\ last_errors = <<>>
  /\ result = NoResult /\ failure = NoFailure
  /\ client = FALSE /\ constructions = 0
  /\ invocations = 0 /\ validations = 0
  /\ prompts = <<>> /\ responses = <<>>

VInit ==
  /\ vpc = "ready"
  /\ plan0 \in CandidatePlans
  /\ plan = plan0
  /\ verdict = NoVerdict
  /\ GInit /\ api_key = TRUE

VNext == ValidateStory

SpecValidate == VInit /\ [][VNext]_vars

---------------------------------------------------------------------------
(* generate_story.                                                         *)

\* ValueError("Invalid level; must be A-H")
InvalidLevel == [exc |-> "ValueError", msg |-> <<"Invalid level; must be A-H">>]

\* RuntimeError("Missing GEMINI_API_KEY environment variable")
MissingCredential ==
  [exc |-> "RuntimeError", msg |-> <<"Missing GEMINI_API_KEY environment variable">>]

\* only the first of the last errors is reported
ExhaustedRetriesFirst(errors) ==
  [exc |-> "RuntimeError",
   msg |-> <<"Failed to generate a valid story after retries: ">>
           \o Join(<<"; ">>, IF errors = <<>> THEN <<>> ELSE <<Head(errors)>>)]

\* RuntimeError("Failed to generate a valid story after retries: " + "; ".join(last_errors))
ExhaustedRetries(errors) ==
  [exc |-> "RuntimeError",
   msg |-> <<"Failed to generate a valid story after retries: ">>
           \o Join(<<"; ">>, errors)]

\* whatever client.models.generate_content raises: the call is outside the
\* try block, so the exception leaves generate_story as it is
TransportError == [exc |-> "TransportError", msg |-> <<>>]

\* the level compared without regard to case
LevelKnownAnyCase(lvl) == lvl \in Range(LEVELS) \cup Range(LOWER)

\* "level not in LEVELS"
LevelKnown(lvl) == lvl \in Range(LEVELS)

base_prompt(tpc, lvl) ==
  SYSTEM_RULES \o <<"\n">> \o ASL_HINTS \o <<"\n\n">>
  \o build_user_instructions(tpc, lvl, WORD_BANK[lvl])

\* only the latest tightening message is sent
PromptLastOnly(base, msgs) ==
  IF msgs = <<>> THEN base ELSE base \o <<"\n\n">> \o msgs[Len(msgs)]

\* "prompt = base_prompt if not tighten_msgs else ..."
Prompt(base, msgs) ==
  IF msgs = <<>> THEN base ELSE base \o <<"\n\n">> \o Join(<<"\n">>, msgs)

\* the parse error appended to the errors of the attempt before
SchemaParseErrorsAppended ==
  Append(last_errors,
         <<"Schema parse error: returned output was not valid JSON per schema">>)

\* the except branch
SchemaParseErrors ==
  << <<"Schema parse error: returned output was not valid JSON per schema">> >>

SchemaTighten ==
  <<"Previous output violated the JSON schema. Return strict JSON only matching fields: level, used_words, story_text.">>

\* the message appended after a failed validation
ConstraintTighten(errors) ==
  <<"Previous output violated constraints:\n- ">>
  \o Join(<<"\n- ">>, errors)
  \o <<"\nRegenerate strictly: use ONLY allowed words; stay under token/sentence caps; keep ASL style.">>

\* one attempt more than max_retries
LoopContinuesInclusive(att, retries) == att <= retries

\* "while attempt < max_retries"
LoopContinues(att, retries) == att < retries

\* the attempts counted from zero
ReturnedFromZero(p, att) == [plan |-> p, attempt |-> att - 1]

\* "return plan, attempt"
Returned(p, att) == [plan |-> p, attempt |-> att]

\* the end of a loop body that did not return: the loop goes on, or the
\* function raises with the last errors
EndOfAttempt(att, errors) ==
  IF LoopContinues(att, max_retries)
  THEN pc' = "attempting" /\ failure' = NoFailure
  ELSE pc' = "raised" /\ failure' = ExhaustedRetries(errors)

\* get_client() without the test of _client: a client for every call
GetClientAlways ==
  IF ~api_key
  THEN [ok |-> FALSE, client |-> client, built |-> FALSE]
  ELSE [ok |-> TRUE, client |-> TRUE, built |-> TRUE]

\* get_client(): built tells that genai.Client(...) was called
GetClient ==
  IF client
  THEN [ok |-> TRUE, client |-> client, built |-> FALSE]
  ELSE IF ~api_key
       THEN [ok |-> FALSE, client |-> client, built |-> FALSE]
       ELSE [ok |-> TRUE, client |-> TRUE, built |-> TRUE]

\* A call of generate_story, up to its first call of the model: the level
\* check, the client, and the loop test with attempt = 0.
Call(tpc, lvl, retries) ==
  /\ pc # "attempting"
  /\ topic' = tpc /\ level' = lvl /\ max_retries' = retries
  /\ attempt' = 0 /\ tighten_msgs' = <<>> /\ last_errors' = <<>>
  /\ invocations' = 0 /\ validations' = 0
  /\ prompts' = <<>> /\ responses' = <<>>
  /\ result' = NoResult
  /\ IF ~LevelKnown(lvl)
     THEN /\ pc' = "raised" /\ failure' = InvalidLevel
          /\ client' = client /\ constructions' = constructions
     ELSE /\ client' = GetClient.client
          /\ constructions' = IF GetClient.built THEN constructions + 1
                                                ELSE constructions
          /\ IF ~GetClient.ok
             THEN pc' = "raised" /\ failure' = MissingCredential
             ELSE IF LoopContinues(0, retries)
                  THEN pc' = "attempting" /\ failure' = NoFailure
                  ELSE pc' = "raised" /\ failure' = ExhaustedRetries(<<>>)
  /\ UNCHANGED <<api_key, vvars>>

\* the head of the loop body: attempt += 1, the prompt, the model call
Invoke(resp) ==
  /\ pc = "attempting"
  /\ attempt' = attempt + 1
  /\ prompts' = Append(prompts, Prompt(base_prompt(topic, level), tighten_msgs))
  /\ invocations' = invocations + 1
  /\ responses' = Append(responses, resp)
  /\ UNCHANGED <<topic, level, max_retries, client, constructions, api_key, vvars>>

\* generate_content raises
AttemptTransportError ==
  /\ Invoke([kind |-> "transport_error"])
  /\ pc' = "raised" /\ failure' = TransportError
  /\ UNCHANGED <<tighten_msgs, last_errors, result, validations>>

\* response.parsed raises
AttemptParseFailure ==
  /\ Invoke([kind |-> "unparseable"])
  /\ last_errors' = SchemaParseErrors
  /\ tighten_msgs' = Append(tighten_msgs, SchemaTighten)
  /\ EndOfAttempt(attempt + 1, SchemaParseErrors)
  /\ UNCHANGED <<result, validations>>

\* response.parsed is a plan
AttemptParsed(p) ==
  /\ Invoke([kind |-> "parsed", plan |-> p])
  /\ validations' = validations + 1
  /\ LET r == validate_story(p)
     IN  IF r.ok
         THEN /\ pc' = "returned"
              /\ result' = Returned(r.plan, attempt + 1)
              /\ failure' = NoFailure
              /\ UNCHANGED <<tighten_msgs, last_errors>>
         ELSE /\ last_errors' = r.errors
              /\ tighten_msgs' = Append(tighten_msgs, ConstraintTighten(r.errors))
              /\ EndOfAttempt(attempt + 1, r.errors)
              /\ UNCHANGED result

Init ==
  /\ GInit
  /\ api_key \in BOOLEAN
  /\ vpc = "off" /\ plan0 = NoPlan /\ plan = NoPlan /\ verdict = NoVerdict

Next ==
  \/ \E tpc \in Topics, lvl \in LevelArgs, retries \in MaxRetriesArgs :
       Call(tpc, lvl, retries)
  \/ AttemptTransportError
  \/ AttemptParseFailure
  \/ \E p \in ResponsePlans : AttemptParsed(p)

Spec == Init /\ [][Next]_vars

---------------------------------------------------------------------------
(* Properties of generate_story.                                           *)

ParseMarker ==
  <<"Schema parse error: returned output was not valid JSON per schema">>

\* the attempt that received r produced a plan that validate_story accepts
Accepted(r) == r.kind = "parsed" /\ validate_story(r.plan).ok

\* the attempt that received r failed to parse or failed validation
Failed(r) == r.kind = "unparseable" \/ (r.kind = "parsed" /\ ~validate_story(r.plan).ok)

\* the outcome of a failed attempt: its violation list or the parse marker
OutcomeErrors(r) ==
  IF r.kind = "parsed" THEN validate_story(r.plan).errors ELSE <<ParseMarker>>

IsExhausted(f) ==
  /\ f.exc = "RuntimeError"
  /\ f.msg # <<>>
  /\ Head(f.msg) = "Failed to generate a valid story after retries: "

\* C1 (early success): when attempts 1..k-1 fail and attempt k yields a plan
\* the validator accepts, generate_story has made exactly k model calls and
\* returns (plan, k); no model call follows an accepted plan.
C1_EarlySuccess ==
  /\ pc = "returned" =>
       LET k == Len(responses) IN
       /\ 1 <= k /\ k <= max_retries
       /\ invocations = k
       /\ result.attempt = k
       /\ Accepted(responses[k])
       /\ result.plan = validate_story(responses[k].plan).plan
       /\ \A j \in 1..(k - 1) : Failed(responses[j])
  /\ \A j \in DOMAIN responses :
       Accepted(responses[j]) =>
         pc = "returned" /\ j = Len(responses) /\ invocations = j

C1_Witness ==
  /\ pc = "returned" /\ result.attempt = 2 /\ invocations = 2
  /\ responses[1].kind = "unparseable"

C3_FailFastOnBadLevel ==
  /\ (pc # "idle" /\ level \notin LevelEnum) =>
       /\ pc = "raised" /\ failure = InvalidLevel
       /\ invocations = 0 /\ prompts = <<>> /\ responses = <<>>
  /\ (pc = "raised" /\ failure = InvalidLevel) => level \notin LevelEnum

C3_Witness ==
  /\ pc = "raised" /\ failure = InvalidLevel
  /\ level = "a" /\ max_retries = 2 /\ topic # <<>> /\ invocations = 0

\* C4: only InvalidLevel, ExhaustedRetries and MissingCredential leave
\* generate_story; no outcome of the model boundary on one attempt does.
C4_OnlyThreeConditions ==
  pc = "raised" =>
    \/ failure = InvalidLevel
    \/ failure = MissingCredential
    \/ IsExhausted(failure)

\* C5 (parse-failure recovery): the attempt whose response cannot be parsed
\* leaves a one-element error list holding the parse marker, appends exactly
\* one instruction (the strict-JSON one), does not run the validator, counts
\* as an attempt, and is followed by the next attempt if any is left; it
\* raises only as the last attempt, and then ExhaustedRetries.
C5_ParseFailureRecovery ==
  [][(pc = "attempting" /\ responses' = Append(responses, [kind |-> "unparseable"])) =>
       /\ Len(last_errors') = 1 /\ last_errors'[1] = ParseMarker
       /\ tighten_msgs' = Append(tighten_msgs, SchemaTighten)
       /\ validations' = validations
       /\ attempt' = attempt + 1 /\ invocations' = invocations + 1
       /\ (attempt' < max_retries => pc' = "attempting")
       /\ (attempt' >= max_retries => pc' = "raised" /\ IsExhausted(failure'))
       /\ result' = result
    ]_vars

C5_Witness ==
  /\ pc = "attempting" /\ attempt = 1 /\ max_retries = 2
  /\ responses = <<[kind |-> "unparseable"]>>
  /\ last_errors = <<ParseMarker>> /\ Len(tighten_msgs) = 1
  /\ validations = 0

\* C6: the message of ExhaustedRetries, raised after max_retries >= 1
\* attempts, carries the outcome of attempt max_retries and of no other.
C6_LastAttemptSurfaced ==
  (pc = "raised" /\ IsExhausted(failure) /\ max_retries >= 1) =>
    /\ Len(responses) = max_retries
    /\ last_errors = OutcomeErrors(responses[max_retries])
    /\ failure.msg = <<"Failed to generate a valid story after retries: ">>
                     \o Join(<<"; ">>, OutcomeErrors(responses[max_retries]))

C6_Witness ==
  /\ pc = "raised" /\ IsExhausted(failure) /\ max_retries = 2
  /\ responses[1].kind = "unparseable" /\ responses[2].kind = "parsed"
  /\ Len(last_errors) = 2

\* the tightening instruction of a failed attempt
Instruction(r) ==
  IF r.kind = "parsed"
  THEN ConstraintTighten(validate_story(r.plan).errors)
  ELSE SchemaTighten

\* e occurs in msg as it is
Contains(msg, e) ==
  \E i \in 0..(Len(msg) - Len(e)) : SubSeq(msg, i + 1, i + Len(e)) = e

\* C7 (cumulative feedback): the first prompt of a call is the base prompt;
\* the prompt of attempt k > 1 is the base prompt followed by the
\* instructions of attempts 1..k-1 in order; the instructions are never
\* reset; the instruction of a failed validation holds every violation
\* of that attempt as reported.
C7_CumulativeFeedback ==
  /\ Len(prompts) = Len(responses)
  /\ \A k \in DOMAIN prompts :
       prompts[k] =
         IF k = 1
         THEN base_prompt(topic, level)
         ELSE base_prompt(topic, level) \o <<"\n\n">>
              \o Join(<<"\n">>, [j \in 1..(k - 1) |-> Instruction(responses[j])])
  /\ \A j \in DOMAIN tighten_msgs :
       /\ j <= Len(responses)
       /\ tighten_msgs[j] = Instruction(responses[j])
       /\ responses[j].kind = "parsed" =>
            LET errs == validate_story(responses[j].plan).errors
            IN  \A e \in DOMAIN errs : Contains(tighten_msgs[j], errs[e])
  /\ \A j \in DOMAIN responses :
       Failed(responses[j]) => j \in DOMAIN tighten_msgs

C7_Witness ==
  /\ pc = "returned" /\ Len(prompts) = 3 /\ Len(tighten_msgs) = 2
  /\ responses[1].kind = "parsed" /\ Len(validate_story(responses[1].plan).errors) = 2
  /\ responses[2].kind = "unparseable"

\* C12: the client is constructed at most once in a process, and once it
\* exists no call, failing or not, replaces or resets it.
C12_ClientCreatedOnce ==
  [][/\ constructions' <= 1
     /\ client' <=> (constructions' = 1)
     /\ client => (client' /\ constructions' = constructions)
    ]_vars

\* a call that fails on its level after the client was made
C12_Witness ==
  /\ client /\ constructions = 1
  /\ pc = "raised" /\ failure = InvalidLevel

\* C13: a missing credential is a failure of process start-up; no call of
\* generate_story raises MissingCredential.
C13_CredentialAtStartup ==
  pc = "raised" => failure # MissingCredential

\* C17: the plan generate_story returns has the level asked for, its
\* tokens are in the bank of that level and within that level's caps,
\* whatever level the response declares.
C17_ReturnedLevelIsRequested ==
  pc = "returned" =>
    LET toks == tokenize_text(result.plan.story_text) IN
    /\ result.plan.level = level
    /\ \A i \in DOMAIN toks : toks[i] \in WORD_BANK[level]
    /\ Len(toks) <= LEVEL_POLICY[level].max_tokens
    /\ Len(split_sentences(result.plan.story_text))
         <= LEVEL_POLICY[level].max_sentences

\* C18: a call with a known level and max_retries <= 0 makes no model call
\* and raises ExhaustedRetries with an empty list of violations; no call
\* returns with an attempt count of 0.
C18_NoAttemptBudget ==
  /\ (pc # "idle" /\ level \in LevelEnum /\ max_retries <= 0) =>
       /\ pc = "raised"
       /\ failure = [exc |-> "RuntimeError",
                     msg |-> <<"Failed to generate a valid story after retries: ">>]
       /\ invocations = 0 /\ prompts = <<>>
       /\ result = NoResult
  /\ pc = "returned" => result.attempt >= 1

\* the response is a plan without a token in story_text and with an empty
\* used_words
TokenFree(r) ==
  /\ r.kind = "parsed"
  /\ r.plan.used_words = <<>>
  /\ tokenize_text(r.plan.story_text) = <<>>

\* generate_story returned on attempt j the plan of response j, its
\* sentences filled in from story_text if it had none
ReturnedOn(j) ==
  /\ pc = "returned" /\ j = Len(responses) /\ result.attempt = j
  /\ result.plan.level = responses[j].plan.level
  /\ result.plan.used_words = <<>>
  /\ result.plan.story_text = responses[j].plan.story_text
  /\ result.plan.sentences =
       IF Missing(responses[j].plan.sentences)
       THEN [present |-> TRUE,
             val |-> split_sentences(responses[j].plan.story_text)]
       ELSE responses[j].plan.sentences

\* C20 as claimed: at every level a plan without tokens and with an empty
\* used_words passes every check, and generate_story returns it on the
\* attempt that produced it.
C20_TokenFreePlanAccepted ==
  \A j \in DOMAIN responses :
    TokenFree(responses[j]) =>
      validate_story(responses[j].plan).errors = <<>> /\ ReturnedOn(j)

\* C20 as the code has it: such a plan passes, and is returned on its
\* attempt, when story_text has no more sentences than the level allows,
\* as the empty story_text has; punctuation between characters that are no
\* tokens still makes sentences, and the sentence cap applies to them.
C20_TokenFreePlanWithinCap ==
  \A j \in DOMAIN responses :
    TokenFree(responses[j]) =>
      IF Len(split_sentences(responses[j].plan.story_text))
           <= LEVEL_POLICY[responses[j].plan.level].max_sentences
      THEN validate_story(responses[j].plan).errors = <<>> /\ ReturnedOn(j)
      ELSE /\ Len(validate_story(responses[j].plan).errors) = 1
           /\ Head(validate_story(responses[j].plan).errors[1]) = "Too many sentences: "
           /\ ~(pc = "returned" /\ j = Len(responses))

\* the empty story returned at level H after the story of digits was
\* rejected at level A
C20_Witness ==
  /\ pc = "returned" /\ result.attempt = 2
  /\ responses[1] = [kind |-> "parsed", plan |-> PlanOf("A", <<>>, StoryOfDigits, NoSentences)]
  /\ responses[2] = [kind |-> "parsed", plan |-> PlanOf("H", <<>>, <<>>, NoSentences)]
  /\ result.plan.sentences = [present |-> TRUE, val |-> <<>>]

---------------------------------------------------------------------------
(* Properties of validate_story.                                           *)

Valid == vpc = "done" /\ verdict.ok

\* C8 (vocabulary closure): in a plan reported valid, every token of
\* story_text and every entry of used_words, as stored, is in the bank of
\* the plan's level.
C8_VocabularyClosure ==
  Valid =>
    /\ \A i \in DOMAIN tokenize_text(plan.story_text) :
         tokenize_text(plan.story_text)[i] \in WORD_BANK[plan.level]
    /\ \A i \in DOMAIN plan.used_words :
         plan.used_words[i] \in WORD_BANK[plan.level]

\* C9 (derivation equality): in a plan reported valid, used_words equals,
\* element for element, the unique tokens of story_text in the order of
\* their first appearance.
C9_DerivationEquality ==
  Valid => plan.used_words = Uniq(tokenize_text(plan.story_text))

\* C10 (cap compliance): a plan reported valid has at most max_tokens tokens
\* and at most max_sentences sentences for its level; a plan over either
\* cap is reported invalid, whatever its vocabulary.
C10_CapCompliance ==
  vpc = "done" =>
    LET policy == LEVEL_POLICY[plan0.level]
        over   == \/ Len(tokenize_text(plan0.story_text)) > policy.max_tokens
                  \/ Len(split_sentences(plan0.story_text)) > policy.max_sentences
    IN  over => ~verdict.ok

\* a plan of level A with four sentences, all of its words in the bank and
\* used_words as derived, is rejected for the sentence cap alone; the
\* piece of three sentences alone is accepted
C10_Witness ==
  /\ vpc = "done" /\ ~verdict.ok
  /\ plan0.level = "A"
  /\ plan0.story_text = PieceSentences \o PieceBoy
  /\ Len(split_sentences(plan0.story_text)) = 4
  /\ Len(verdict.errors) = 1




\* C11 (sentences backfill): a plan given without sentences (None or empty)
\* and reported valid is returned with sentences equal to
\* split_sentences(story_text).
C11_SentencesBackfill ==
  (Valid /\ Missing(plan0.sentences)) =>
    plan.sentences = [present |-> TRUE, val |-> split_sentences(plan0.story_text)]

C11_Witness ==
  /\ Valid
  /\ plan0.sentences = [present |-> TRUE, val |-> <<>>]
  /\ plan0.story_text = PieceSentences
  /\ Len(plan.sentences.val) = 3

\* the check a violation message comes from, 1 to 5
Kind(e) ==
  CASE Head(e) = "Out-of-bank used_words item: " -> 1
    [] Head(e) = "OOV token in story_text: " -> 2
    [] Head(e) = "Too many tokens: " -> 3
    [] Head(e) = "Too many sentences: " -> 4
    [] Head(e) = "used_words does not match unique token order from story_text" -> 5

CountKind(errs, k) == Cardinality({i \in DOMAIN errs : Kind(errs[i]) = k})

\* C14: every one of the five checks runs on every plan; the violations are
\* listed check by check in the order used_words closure, story_text
\* closure, token cap, sentence cap, consistency, each check contributing
\* all of its violations whatever the others found; the plan is valid
\* exactly when the list is empty.
C14_AllChecksInOrder ==
  vpc = "done" =>
    LET errs   == verdict.errors
        bank   == WORD_BANK[plan0.level]
        policy == LEVEL_POLICY[plan0.level]
        used   == plan0.used_words
        toks   == tokenize_text(plan0.story_text)
        sents  == split_sentences(plan0.story_text)
    IN  /\ \A i \in DOMAIN errs : \A j \in DOMAIN errs :
             i < j => Kind(errs[i]) <= Kind(errs[j])
        /\ CountKind(errs, 1) =
             Cardinality({i \in DOMAIN used : normalize_word(used[i]) \notin bank})
        /\ CountKind(errs, 2) =
             Cardinality({i \in DOMAIN toks : toks[i] \notin bank})
        /\ CountKind(errs, 3) = IF Len(toks) > policy.max_tokens THEN 1 ELSE 0
        /\ CountKind(errs, 4) = IF Len(sents) > policy.max_sentences THEN 1 ELSE 0
        /\ CountKind(errs, 5) =
             IF NormalizedUsedWords(used) # Uniq(toks) THEN 1 ELSE 0
        /\ verdict.ok <=> (errs = <<>>)

\* four of the five checks report on one plan
C14_Witness ==
  /\ vpc = "done" /\ ~verdict.ok
  /\ plan0.level = "A"
  /\ plan0.story_text = PieceSentences \o PieceCats
  /\ Len(verdict.errors) = 4
  /\ [i \in 1..4 |-> Kind(verdict.errors[i])] = <<1, 3, 4, 5>>

\* C15 as claimed: a plan reported invalid is the same after validation
\* as before, in every field.
C15_NoMutationOnFailure ==
  (vpc = "done" /\ ~verdict.ok) => plan = plan0

\* C15 as the code has it: a plan reported invalid keeps its level,
\* used_words and story_text, and its sentences if it had any; sentences
\* that were None or empty are set to split_sentences(story_text), as on
\* the success path.
C15_FailurePathFrame ==
  (vpc = "done" /\ ~verdict.ok) =>
    /\ plan.level = plan0.level
    /\ plan.used_words = plan0.used_words
    /\ plan.story_text = plan0.story_text
    /\ plan.sentences =
         IF Missing(plan0.sentences)
         THEN [present |-> TRUE, val |-> split_sentences(plan0.story_text)]
         ELSE plan0.sentences

C15_Witness ==
  /\ vpc = "done" /\ ~verdict.ok
  /\ ~plan0.sentences.present
  /\ plan.sentences.present /\ Len(plan.sentences.val) = 1

\* C16: the consistency check adds one violation, never more, exactly when
\* the lowercased used_words differs from the unique tokens in order of
\* first appearance, be it by order, a missing, an extra or a repeated
\* entry; it adds none when the two are equal.
C16_OneConsistencyViolation ==
  vpc = "done" =>
    LET same == /\ Len(plan0.used_words) = Len(Uniq(tokenize_text(plan0.story_text)))
                /\ \A i \in DOMAIN plan0.used_words :
                     normalize_word(plan0.used_words[i])
                       = Uniq(tokenize_text(plan0.story_text))[i]
    IN  CountKind(verdict.errors, 5) = IF same THEN 0 ELSE 1

\* the same two words in the other order: the one violation reported
C16_Witness ==
  /\ vpc = "done" /\ plan0.level = "B"
  /\ plan0.story_text = PieceBoy \o PieceSchool
  /\ plan0.used_words = << <<"s", "c", "h", "o", "o", "l">>, <<"b", "o", "y">> >>
  /\ Len(verdict.errors) = 1 /\ Kind(verdict.errors[1]) = 5

\* C19: validate_story leaves level, used_words and story_text as given,
\* and sentences too unless it was None or empty; sentences given by the
\* model are kept also where they differ from split_sentences(story_text).
C19_OnlySentencesBackfilled ==
  vpc = "done" =>
    /\ plan.level = plan0.level
    /\ plan.used_words = plan0.used_words
    /\ plan.story_text = plan0.story_text
    /\ ~Missing(plan0.sentences) => plan.sentences = plan0.sentences
    /\ plan # plan0 => Missing(plan0.sentences)

C19_Witness ==
  /\ Valid
  /\ ~Missing(plan0.sentences)
  /\ plan0.sentences.val # split_sentences(plan0.story_text)
  /\ plan = plan0

====
